---- MODULE Spec2Model ----
(***************************************************************************)
(* A model of the sampling core of lightmetrica-v3:                        *)
(*   - Volume_VdbConvertScalar (plugin/volume_vdbconvert): the offline     *)
(*     converter, the loader and the trilinear lookup of the Grid Volume;  *)
(*   - Volume_Multi (src/volume/volume_multi.cpp): the compositor, called  *)
(*     from one thread and, in its query phase, from worker threads;       *)
(*   - PointGeometry, SceneInteraction and the surface utilities           *)
(*     (include/lm/surface.h);                                             *)
(*   - Accel (include/lm/accel.h), the ray / primitive-set query;          *)
(*   - UserContext and ScopedInit (src/user.cpp, include/lm/user.h).       *)
(*                                                                         *)
(* Numbers.  Positions are integers counted in ticks (a fixed fraction of  *)
(* the scene unit); Eps is the library's epsilon in ticks.  Real-valued    *)
(* results are exact rationals [n |-> numerator, d |-> denominator > 0];   *)
(* floating-point rounding is not modelled.                                *)
(***************************************************************************)
EXTENDS Integers, Sequences, FiniteSets, TLC

(* ------------------------------ bounds --------------------------------- *)
\* Largest value of a source density field.
MaxSample == 2
\* Largest extent of a source bound on the x axis, in ticks.
MaxExtent == 8
\* Largest extent of a source bound on the y and z axes, in ticks.
MinorExtent == 2
\* How far outside bound() the query points reach, in ticks.
QueryMargin == 1
\* Most payload buffers one instance allocates.
MaxAllocs == 2

(* ------------------------------- state --------------------------------- *)
\* files: the converted pair on disk.  grid: the Volume_VdbConvertScalar
\* instance.  g_last: the eval_scalar call in progress and what it found.
\* multi: the Volume_Multi instance.  scalars: the thread_local scratch of
\* eval_color.  m_ok: some construct call on the instance has succeeded.
\* m_last: the compositor call in progress and what it gave back.
\* workers: the eval_color call each worker thread is in.  tl_scalars: each
\* worker thread's copy of the thread_local scratch of eval_color.
\* surf: the call on a PointGeometry in progress and what it gave back.
\* heap: the payload buffers the Grid Volume instance has malloc'd that are
\* still allocated, and whether the instance has been destroyed.
\* accel: the Accel instance (the scene it was built from) and the
\* intersect call in progress.  user: the UserContext singleton.  u_last:
\* the user API call in progress.  scopes: the ScopedInit objects alive.
\* nest: one thread inside eval_color of a compositor whose albedo fields
\* may be compositors: the frames of the calls and the thread's scratch.
VARIABLES files, grid, g_last, multi, scalars, m_ok, m_last,
          workers, tl_scalars, surf, heap, accel, user, u_last, scopes, nest

gridVars == <<files, grid, g_last, heap>>

multiVars == <<multi, scalars, m_ok, m_last>>

threadVars == <<workers, tl_scalars>>

surfVars == <<surf>>

\* The Accel instance, the user context and the nested eval_color calls.
restVars == <<accel, user, u_last, scopes, nest>>

\* What the operations of the Grid Volume leave alone.
notGrid == <<multiVars, threadVars, surfVars, restVars>>

\* What the operations of the compositor leave alone.
notMulti == <<gridVars, threadVars, surfVars, restVars>>

vars == <<files, grid, g_last, multi, scalars, m_ok, m_last,
          workers, tl_scalars, surf, heap, accel, user, u_last, scopes, nest>>

(* ------------------------------ helpers -------------------------------- *)
Axes == 1..3

Vec3(a, b, c) == <<a, b, c>>

Rat(n, d) == [n |-> n, d |-> d]

RatEq(a, b) == a.n * b.d = b.n * a.d

RatLeq(a, b) == a.n * b.d <= b.n * a.d

RECURSIVE SetMax(_)
SetMax(S) == IF S = {} THEN 0
             ELSE LET x == CHOOSE y \in S : TRUE
                      m == SetMax(S \ {x})
                  IN IF x > m THEN x ELSE m

(* ------------------------- the source field ---------------------------- *)
(* The OpenVDB file behind the vdbloader context: a density field with a   *)
(* tight bound, zero (background) outside it.                              *)
FieldValue(f, pos) ==
    IF f = 1 THEN 1
    ELSE ((pos[1] + 2 * pos[2] + 4 * pos[3]) \div 2) % (MaxSample + 1)

InBox(b, pos) == \A a \in Axes : b.min[a] <= pos[a] /\ pos[a] <= b.max[a]

\* vbdloaderEvalScalar(context, pos)
vbdloaderEvalScalar(src, pos) ==
    IF InBox(src, pos) THEN FieldValue(src.field, pos) ELSE 0

\* vbdloaderGetMaxScalar(context): the maximum over the tight bound
vbdloaderGetMaxScalar(src) ==
    SetMax({ FieldValue(src.field, Vec3(x, y, z)) :
                x \in src.min[1]..src.max[1],
                y \in src.min[2]..src.max[2],
                z \in src.min[3]..src.max[3] })

(* --------------------------- the converter ----------------------------- *)
\* Eps, in ticks.
Eps == 2

\* The user scale is scale_num / ScaleDen.
ScaleDen == 2

ScaleNums == {1, 2, 4}

\* The step sizes asked for, in ticks: several Eps, as a voxel is in practice.
StepSizes == {4, 6}

\* fmod(range, step_size), a remainder below Eps counting as a full step
Remainder(range, step_size) ==
    LET r == range % step_size
    IN IF r < Eps THEN step_size ELSE r

\* The correction without its division by two.
Correction_Whole(range, step_size) == step_size - Remainder(range, step_size)

\* correction = (step_size - remainder) / 2 on each axis
Correction(range, step_size) == (step_size - Remainder(range, step_size)) \div 2

\* bound.min -= correction; bound.max += correction
PaddedBound(src, step_size) ==
    [min |-> [a \in Axes |-> src.min[a]
                 - Correction(src.max[a] - src.min[a], step_size)],
     max |-> [a \in Axes |-> src.max[a]
                 + Correction(src.max[a] - src.min[a], step_size)]]

\* The number of cells, without the one added for the last lattice point.
StepCount_Cells(extent, step_size) == (2 * extent + step_size) \div (2 * step_size)

\* int(std::round((max - min) / step_size + 1)), half away from zero
StepCount(extent, step_size) == (2 * extent + 3 * step_size) \div (2 * step_size)

StepCounts(bound, step_size) ==
    [a \in Axes |-> StepCount(bound.max[a] - bound.min[a], step_size)]

\* The sidecar convert writes.
MetaJson(src, step_size, scale_num) ==
    LET bound == PaddedBound(src, step_size)
    IN [bound |-> bound,
        dimension |-> StepCounts(bound, step_size),
        step_size |-> step_size,
        max_scalar |-> Rat(vbdloaderGetMaxScalar(src) * scale_num, ScaleDen)]

\* The payload convert writes: loops z, y, x (x innermost), one sample each.
Payload(src, step_size) ==
    LET bound == PaddedBound(src, step_size)
        dim == StepCounts(bound, step_size)
    IN [k \in 1..(dim[1] * dim[2] * dim[3]) |->
          LET x == (k - 1) % dim[1]
              y == ((k - 1) \div dim[1]) % dim[2]
              z == (k - 1) \div (dim[1] * dim[2])
          IN vbdloaderEvalScalar(src,
                 Vec3(bound.min[1] + x * step_size,
                      bound.min[2] + y * step_size,
                      bound.min[3] + z * step_size))]

(* ---------------------------- the files -------------------------------- *)
NoJson == [bound |-> [min |-> Vec3(0, 0, 0), max |-> Vec3(0, 0, 0)],
           dimension |-> Vec3(0, 0, 0), step_size |-> 0,
           max_scalar |-> Rat(0, 1)]

NoFiles == [meta_exists |-> FALSE, meta |-> NoJson,
            payload_exists |-> FALSE, payload |-> << >>]

(* The sidecar's text (json.dump(4)), counted in 4-byte words: one word for *)
(* the opening brace, one per key and one per number.                      *)
MetaTextWords == 19

(* The sidecar read as binary floats: every word of text decodes to some   *)
(* float that is no sample of the field.                                   *)
TextAsFloats(meta) == [k \in 1..MetaTextWords |-> 1000 + k]

(* -------------------------- the Grid Volume ---------------------------- *)

NoSource == [field |-> 0, min |-> Vec3(0, 0, 0), max |-> Vec3(0, 0, 0)]

\* A call on the instance in progress.  For eval_scalar: the point and what
\* the interpolation found.  For construct: the ending of the path, the
\* source and step_size convert was given, and how the call ended (signal).
\* For march: how the call ended, what it logged and how often it invoked
\* the callback.
NoQuery == [op |-> "none", p |-> Vec3(0, 0, 0), lowerLeft |-> Vec3(0, 0, 0),
            t |-> Vec3(0, 0, 0), corners |-> << >>, result |-> Rat(0, 1),
            path |-> "none", src |-> NoSource, step_size |-> 0,
            signal |-> "none", log |-> "none", steps |-> 0]

\* The call record with the fields of r set.
Call(r) == [f \in DOMAIN NoQuery |-> IF f \in DOMAIN r THEN r[f] ELSE NoQuery[f]]

\* The bound check without its test of x against dimension_.x.
OutOfBound_NoUpperX(g, x, y, z) ==
    \/ x < 0 \/ y < 0 \/ z < 0
    \/ y >= g.dimension_[2] \/ z >= g.dimension_[3]

\* eval_scalar(int, int, int): the bound check
OutOfBound(g, x, y, z) ==
    \/ x < 0 \/ y < 0 \/ z < 0
    \/ x >= g.dimension_[1] \/ y >= g.dimension_[2] \/ z >= g.dimension_[3]

\* volume_[z * dimension_.x * dimension_.y + y * dimension_.x + x]
FlatIndex(g, x, y, z) ==
    z * g.dimension_[1] * g.dimension_[2] + y * g.dimension_[1] + x

\* One lookup of eval_scalar(int, int, int): the index it reads (-1: none)
\* and the value it returns.  A read outside the buffer returns heap bytes.
Lookup(g, x, y, z) ==
    IF OutOfBound(g, x, y, z)
    THEN [c |-> Vec3(x, y, z), read |-> -1, value |-> 0]
    ELSE LET i == FlatIndex(g, x, y, z)
         IN [c |-> Vec3(x, y, z), read |-> i,
             value |-> IF i + 1 \in DOMAIN g.volume_
                       THEN g.volume_[i + 1] ELSE 999]

eval_scalar_i(g, x, y, z) == Lookup(g, x, y, z).value

\* lerp(a, b, t) = a + t * (b - a), with a, b numerators over a common
\* denominator and t = tn / td: the numerator of the result over that
\* denominator times td.
lerp(a, b, tn, td) == a * td + tn * (b - a)

\* eval_scalar(Vec3 p)
eval_scalar(g, p) ==
    LET den == [a \in Axes |-> g.bound_.max[a] - g.bound_.min[a]]
        \* p_boundSpace = (p - min) / (max - min) * dimension, as num / den
        num == [a \in Axes |-> (p[a] - g.bound_.min[a]) * g.dimension_[a]]
        lowerLeft == [a \in Axes |-> num[a] \div den[a]]
        upperRight == [a \in Axes |-> lowerLeft[a] + 1]
        t == [a \in Axes |-> num[a] - lowerLeft[a] * den[a]]
        c000 == Lookup(g, lowerLeft[1], lowerLeft[2], lowerLeft[3])
        c100 == Lookup(g, upperRight[1], lowerLeft[2], lowerLeft[3])
        c001 == Lookup(g, lowerLeft[1], lowerLeft[2], upperRight[3])
        c101 == Lookup(g, upperRight[1], lowerLeft[2], upperRight[3])
        c010 == Lookup(g, lowerLeft[1], upperRight[2], lowerLeft[3])
        c110 == Lookup(g, upperRight[1], upperRight[2], lowerLeft[3])
        c011 == Lookup(g, lowerLeft[1], upperRight[2], upperRight[3])
        c111 == Lookup(g, upperRight[1], upperRight[2], upperRight[3])
        x00 == lerp(c000.value, c100.value, t[1], den[1])
        x01 == lerp(c001.value, c101.value, t[1], den[1])
        x10 == lerp(c010.value, c110.value, t[1], den[1])
        x11 == lerp(c011.value, c111.value, t[1], den[1])
        y0 == lerp(x00, x10, t[2], den[2])
        y1 == lerp(x01, x11, t[2], den[2])
        z == lerp(y0, y1, t[3], den[3])
    IN [op |-> "eval_scalar", p |-> p, lowerLeft |-> lowerLeft,
        t |-> [a \in Axes |-> Rat(t[a], den[a])],
        corners |-> <<c000, c100, c001, c101, c010, c110, c011, c111>>,
        result |-> Rat(z, den[1] * den[2] * den[3])]

\* construct, after the optional convert: the sidecar is parsed, the buffer
\* is allocated and filled from the stream opened on path_meta.
Load(fs, uninit) ==
    LET n == fs.meta.dimension[1] * fs.meta.dimension[2] * fs.meta.dimension[3]
        words == TextAsFloats(fs.meta)
    IN [constructed |-> TRUE,
        bound_ |-> fs.meta.bound,
        max_scalar_ |-> fs.meta.max_scalar,
        dimension_ |-> fs.meta.dimension,
        volume_ |-> [k \in 1..n |-> IF k <= Len(words) THEN words[k] ELSE uninit]]

\* The instance as constructed by Volume_VdbConvertScalar(): volume_(nullptr)
NoGrid == [constructed |-> FALSE,
           bound_ |-> [min |-> Vec3(0, 0, 0), max |-> Vec3(0, 0, 0)],
           max_scalar_ |-> Rat(0, 1),
           dimension_ |-> Vec3(0, 0, 0),
           volume_ |-> << >>]

GridInit ==
    /\ files = NoFiles
    /\ grid = NoGrid
    /\ g_last = NoQuery
    /\ heap = [live |-> 0, destroyed |-> FALSE]

\* The source files construct may be pointed at.
Sources ==
    { [field |-> f, min |-> Vec3(0, 0, 0), max |-> Vec3(ex, ey, ez)] :
        f \in 1..2, ex \in 1..MaxExtent, ey \in 1..MinorExtent,
        ez \in 1..MinorExtent }

\* The corrections of the step are whole ticks.
Convertible(src, step_size) ==
    \A a \in Axes :
        (step_size - Remainder(src.max[a] - src.min[a], step_size)) % 2 = 0

\* What malloc'd memory holds where the read did not reach.
UninitValues == {0, 999}

\* The conversions construct is asked for, each with the pair of files
\* convert leaves on the disk.
Conversions ==
    { [src |-> c.src, step_size |-> c.step_size,
       fs |-> [meta_exists |-> TRUE,
               meta |-> MetaJson(c.src, c.step_size, c.scale_num),
               payload_exists |-> TRUE,
               payload |-> Payload(c.src, c.step_size)]] :
        c \in { x \in [src : Sources, step_size : StepSizes,
                        scale_num : ScaleNums] :
                    Convertible(x.src, x.step_size) } }

\* construct with a path ending in ".vdb": convert, then load.  When
\* vdbloaderLoadVDBFile fails (the source is missing or unreadable) convert
\* throws Error::IOError before anything is written or assigned.
\* Each load assigns a fresh malloc'd buffer to volume_; the buffer volume_
\* pointed at before is not freed.
ConstructVdb ==
    /\ g_last.op = "none"
    /\ ~heap.destroyed
    /\ \/ /\ g_last' = Call([op |-> "construct", path |-> ".vdb",
                              signal |-> "IOError"])
          /\ UNCHANGED <<files, grid, heap>>
       \/ \E c \in Conversions, uninit \in UninitValues :
              /\ heap.live < MaxAllocs
              /\ files' = c.fs
              /\ grid' = Load(c.fs, uninit)
              /\ heap' = [heap EXCEPT !.live = @ + 1]
              /\ g_last' = Call([op |-> "construct", path |-> ".vdb",
                                  src |-> c.src, step_size |-> c.step_size,
                                  signal |-> "ok"])
    /\ UNCHANGED notGrid

\* construct with a path ending in ".cvdb": load the converted pair.  With
\* no sidecar Json::parse throws on the failed stream, before any member is
\* assigned; the state of the stream opened for the payload is never tested.
ConstructCvdb ==
    /\ g_last.op = "none"
    /\ ~heap.destroyed
    /\ IF files.meta_exists
       THEN \E uninit \in UninitValues :
               /\ heap.live < MaxAllocs
               /\ grid' = Load(files, uninit)
               /\ heap' = [heap EXCEPT !.live = @ + 1]
               /\ g_last' = Call([op |-> "construct", path |-> ".cvdb",
                                   signal |-> "ok"])
       ELSE /\ grid' = grid
            /\ heap' = heap
            /\ g_last' = Call([op |-> "construct", path |-> ".cvdb",
                                signal |-> "parse_error"])
    /\ UNCHANGED <<files, notGrid>>

\* The payload file of the converted pair is deleted from the disk.
RemovePayload ==
    /\ g_last.op = "none"
    /\ files.payload_exists
    /\ files' = [files EXCEPT !.payload_exists = FALSE]
    /\ UNCHANGED <<grid, g_last, heap, notGrid>>

\* The sidecar of the converted pair is deleted from the disk.
RemoveMeta ==
    /\ g_last.op = "none"
    /\ files.meta_exists
    /\ files' = [files EXCEPT !.meta_exists = FALSE]
    /\ UNCHANGED <<grid, g_last, heap, notGrid>>

\* The points eval_scalar is asked about.
QueryPoints(g) ==
    { Vec3(x, y, z) :
        x \in (g.bound_.min[1] - QueryMargin)..(g.bound_.max[1] + QueryMargin),
        y \in (g.bound_.min[2] - QueryMargin)..(g.bound_.max[2] + QueryMargin),
        z \in (g.bound_.min[3] - QueryMargin)..(g.bound_.max[3] + QueryMargin) }

\* A caller invokes eval_scalar(p); g_last is the call and what it found.
EvalScalar ==
    /\ grid.constructed
    /\ ~heap.destroyed
    /\ g_last.op = "none"
    /\ \E p \in QueryPoints(grid) : g_last' = Call(eval_scalar(grid, p))
    /\ UNCHANGED <<files, grid, heap, notGrid>>

\* The call returns to its caller.
GridReturn ==
    /\ g_last.op # "none"
    /\ g_last' = NoQuery
    /\ UNCHANGED <<files, grid, heap, notGrid>>

\* march(ray, tmin, tmax, marchStep, raymarchFunc): logs an error and
\* returns; raymarchFunc is never invoked.
March ==
    /\ grid.constructed
    /\ ~heap.destroyed
    /\ g_last.op = "none"
    /\ g_last' = Call([op |-> "march", signal |-> "ok", log |-> "error",
                        steps |-> 0])
    /\ UNCHANGED <<files, grid, heap, notGrid>>

\* The instance is destroyed.  The class declares no destructor, so the
\* members are destroyed as they are: volume_ is a raw pointer, and nothing
\* frees what it points at or any buffer it pointed at before.
Destroy ==
    /\ g_last.op = "none"
    /\ ~heap.destroyed
    /\ heap' = [heap EXCEPT !.destroyed = TRUE]
    /\ UNCHANGED <<files, grid, g_last, notGrid>>

GridNext == ConstructVdb \/ ConstructCvdb \/ EvalScalar \/ March \/ GridReturn

\* The loader next to a disk whose files come and go.
FilesNext ==
    \/ ConstructVdb \/ ConstructCvdb \/ RemovePayload \/ RemoveMeta
    \/ Destroy \/ GridReturn

(* ------------------------- the volume fields --------------------------- *)
(* The Volume components a compositor may be pointed at (comp::get): 1 has *)
(* a density only, 2 has a density and a colour, 3 has a colour only.      *)
Volumes == {1, 2, 3}

has_scalar(v) == v \in {1, 2}

has_color(v) == v \in {2, 3}

max_scalar(v) == IF has_scalar(v) THEN v + 1 ELSE 0

bound(v) == [min |-> Vec3(v, 0, 0 - v), max |-> Vec3(v + 2, 1, v)]

\* The points the compositor is asked about; every density is 0 at point 1.
Points == 1..3

vol_eval_scalar(v, p) == ((p - 1) * v) % 3

vol_eval_color(v, p) == Vec3(v, p, 1)

(* --------------------------- the compositor ---------------------------- *)

\* Longest list a construct call names.
MaxList == 2

\* Construct is not called once the instance holds this many fields.
MaxVolumes == MaxList + 1

Inf == 1000000

RECURSIVE SeqSum(_)
SeqSum(s) == IF s = << >> THEN 0 ELSE Head(s) + SeqSum(Tail(s))

Min2(a, b) == IF a < b THEN a ELSE b

SetMin(S) == CHOOSE x \in S : \A y \in S : x <= y

\* The size test of construct
InvalidSize(alb, den) == Len(alb) = 0 \/ Len(den) = 0 \/ Len(den) # Len(alb)

\* The capability test without its check of the density field.
LacksCapability_ColorOnly(alb, den, i) == ~has_color(alb[i])

\* The capability test of one round of the loading loop
LacksCapability(alb, den, i) == ~has_color(alb[i]) \/ ~has_scalar(den[i])

\* The bounding box of the volumes of the density list
UnionBound(dens) ==
    [min |-> [a \in Axes |->
                 SetMin({Inf} \cup { bound(dens[i]).min[a] : i \in DOMAIN dens })],
     max |-> [a \in Axes |->
                 SetMax({ bound(dens[i]).max[a] + Inf : i \in DOMAIN dens }) - Inf]]

\* max_scalar_ after the loop over volumes_den_
AccumulatedMaxScalar(m, dens) ==
    m.max_scalar_ + SeqSum([i \in DOMAIN dens |-> max_scalar(dens[i])])

\* construct: the instance after the call, and how the call ended
construct(m, alb, den) ==
    IF InvalidSize(alb, den)
    THEN [m |-> m, signal |-> "InvalidArgument"]
    ELSE LET n == Len(alb)
             bad == { i \in 1..n : LacksCapability(alb, den, i) }
         IN IF bad # {}
            THEN LET k == SetMin(bad)
                 IN [m |-> [m EXCEPT !.size_ = n,
                                !.volumes_alb_ = @ \o SubSeq(alb, 1, k),
                                !.volumes_den_ = @ \o SubSeq(den, 1, k)],
                     signal |-> "InvalidArgument"]
            ELSE LET dens == m.volumes_den_ \o den
                 IN [m |-> [size_ |-> n,
                            volumes_alb_ |-> m.volumes_alb_ \o alb,
                            volumes_den_ |-> dens,
                            bound_ |-> UnionBound(dens),
                            max_scalar_ |-> AccumulatedMaxScalar(m, dens)],
                     signal |-> "ok"]

\* The loop of eval_scalar: sum += v->eval_scalar(p) for v in volumes_den_
RECURSIVE DensityLoop(_, _, _)
DensityLoop(vs, p, sum) ==
    IF vs = << >> THEN sum
    ELSE DensityLoop(Tail(vs), p, sum + vol_eval_scalar(Head(vs), p))

NoScalar == [kind |-> "none", value |-> 0]

\* The sum taken over the first size_ fields only, as the weighting loop of
\* eval_color runs.
Multi_eval_scalar_UpToSize(m, p) ==
    IF \E i \in DOMAIN m.volumes_den_ : ~has_scalar(m.volumes_den_[i])
    THEN [kind |-> "undefined", value |-> 0]
    ELSE [kind |-> "value",
          value |-> DensityLoop(SubSeq(m.volumes_den_, 1,
                                       Min2(m.size_, Len(m.volumes_den_))), p, 0)]

\* Volume_Multi::eval_scalar: the density returned.  kind is "value" or
\* "undefined" (a field of volumes_den_ was asked for a scalar it lacks).
Multi_eval_scalar(m, p) ==
    IF \E i \in DOMAIN m.volumes_den_ : ~has_scalar(m.volumes_den_[i])
    THEN [kind |-> "undefined", value |-> 0]
    ELSE [kind |-> "value", value |-> DensityLoop(m.volumes_den_, p, 0)]

NoColor == [kind |-> "none", num |-> Vec3(0, 0, 0), den |-> 1]

\* eval_color: the colour returned.  kind is "value" (num / den), "nan"
\* (a division of zero by zero reached the result) or "undefined" (the call
\* read past the end of a vector or asked a field for what it lacks).
eval_color(m, scratch, p) ==
    LET pushed == [i \in DOMAIN m.volumes_den_ |->
                      vol_eval_scalar(m.volumes_den_[i], p)]
        sc == scratch \o pushed
        sum == SeqSum(pushed)
        n == m.size_
    IN IF \/ n > Len(sc) \/ n > Len(m.volumes_alb_)
          \/ \E i \in DOMAIN m.volumes_den_ : ~has_scalar(m.volumes_den_[i])
          \/ \E i \in 1..Min2(n, Len(m.volumes_alb_)) :
                ~has_color(m.volumes_alb_[i])
       THEN [kind |-> "undefined", num |-> Vec3(0, 0, 0), den |-> 1]
       ELSE IF sum = 0 /\ n > 0
       THEN [kind |-> "nan", num |-> Vec3(0, 0, 0), den |-> 1]
       ELSE [kind |-> "value",
             num |-> [a \in Axes |->
                        SeqSum([i \in 1..n |->
                            sc[i] * vol_eval_color(m.volumes_alb_[i], p)[a]])],
             den |-> IF n > 0 THEN sum ELSE 1]

\* A default-constructed Bound
NoBound == [min |-> Vec3(Inf, Inf, Inf),
            max |-> Vec3(0 - Inf, 0 - Inf, 0 - Inf)]

NoMulti == [size_ |-> 0, volumes_alb_ |-> << >>, volumes_den_ |-> << >>,
            bound_ |-> [min |-> Vec3(0, 0, 0), max |-> Vec3(0, 0, 0)],
            max_scalar_ |-> 0]

\* A call in progress: its arguments, the instance before it (pre), and
\* what it gave back.
NoCall == [op |-> "none", alb |-> << >>, den |-> << >>, signal |-> "none",
           p |-> 0, color |-> NoColor, scalar |-> NoScalar, pre |-> NoMulti]

Lists == UNION { [1..n -> Volumes] : n \in 0..MaxList }

MultiInit ==
    /\ \E garbage \in {0, 7} :
          multi = [NoMulti EXCEPT !.size_ = garbage, !.bound_ = NoBound]
    /\ scalars = << >>
    /\ m_ok = FALSE
    /\ m_last = NoCall

\* construct(prop) with prop.volumes_alb = alb and prop.volumes_den = den
Construct ==
    /\ m_last.op = "none"
    /\ \E alb \in Lists, den \in Lists :
          /\ Len(multi.volumes_den_) + Len(den) <= MaxVolumes
          /\ LET r == construct(multi, alb, den)
             IN /\ multi' = r.m
                /\ m_ok' = (m_ok \/ r.signal = "ok")
                /\ m_last' = [NoCall EXCEPT !.op = "construct", !.alb = alb,
                                            !.den = den, !.signal = r.signal,
                                            !.pre = multi]
    /\ UNCHANGED <<scalars, notMulti>>

\* eval_color(p) on a constructed compositor; the scratch vector is cleared
\* before the call returns.
EvalColor ==
    /\ m_last.op = "none"
    /\ m_ok
    /\ \E p \in Points :
          m_last' = [NoCall EXCEPT !.op = "eval_color", !.p = p,
                                   !.color = eval_color(multi, scalars, p),
                                   !.pre = multi]
    /\ scalars' = << >>
    /\ UNCHANGED <<multi, m_ok, notMulti>>

\* eval_scalar(p) on a constructed compositor
MultiEvalScalar ==
    /\ m_last.op = "none"
    /\ m_ok
    /\ \E p \in Points :
          m_last' = [NoCall EXCEPT !.op = "eval_scalar", !.p = p,
                                   !.scalar = Multi_eval_scalar(multi, p),
                                   !.pre = multi]
    /\ UNCHANGED <<multi, scalars, m_ok, notMulti>>

MultiReturn ==
    /\ m_last.op # "none"
    /\ m_last' = NoCall
    /\ UNCHANGED <<multi, scalars, m_ok, notMulti>>

MultiNext == Construct \/ EvalColor \/ MultiEvalScalar \/ MultiReturn

(* ------------------- eval_color on worker threads ---------------------- *)
(* The query phase: the compositor is constructed and no longer changes,   *)
(* and worker threads run eval_color against it, one statement at a time.  *)

\* The worker threads.
Threads == {1, 2}

\* One scratch vector for all threads.
ScratchOf_Shared(t) == 1

\* thread_local std::vector<Float> scalars: the copy thread t works on
ScratchOf(t) == t

\* A worker outside eval_color.  In a call: the point p, the next index k of
\* the loop over volumes_den_, sum, the next index i of the weighting loop,
\* resulting_color as numerators over sum (num), whether a read went past
\* the end of a vector or a field was asked for what it lacks (undef), and
\* the colour the call returns.
IdleWorker == [pc |-> "idle", p |-> 0, k |-> 0, sum |-> 0, i |-> 0,
               num |-> Vec3(0, 0, 0), undef |-> FALSE, color |-> NoColor]

\* The instances a first construct call is made on.
FreshMultis ==
    { [NoMulti EXCEPT !.size_ = garbage, !.bound_ = NoBound] : garbage \in {0, 7} }

\* The results of one construct call on the instances ms.
Constructs(ms) ==
    { construct(m, alb, den) :
        m \in ms,
        alb \in Lists,
        den \in { d \in Lists : \A m2 \in ms :
                     Len(m2.volumes_den_) + Len(d) <= MaxVolumes } }

\* The instances the query phase starts with: one construct call, or two in
\* a row, were made on a fresh instance and the last one succeeded.
ConstructedMultis ==
    LET first == Constructs(FreshMultis)
        second == UNION { Constructs({r.m}) : r \in first }
    IN { r.m : r \in { q \in first \cup second : q.signal = "ok" } }

ThreadsInit ==
    /\ multi \in ConstructedMultis
    /\ scalars = << >>
    /\ m_ok = TRUE
    /\ m_last = NoCall
    /\ workers = [t \in Threads |-> IdleWorker]
    /\ tl_scalars = [t \in Threads |-> << >>]

\* Thread t enters eval_color(p): sum = 0, scalars.reserve(size_)
WorkerCall(t) ==
    /\ workers[t].pc = "idle"
    /\ \E p \in Points :
          workers' = [workers EXCEPT ![t] =
              [IdleWorker EXCEPT !.pc = "push", !.p = p, !.k = 1]]
    /\ UNCHANGED <<tl_scalars, multiVars, gridVars, surfVars, restVars>>

\* One round of the loop over volumes_den_, or, after the last, the
\* initialisation of resulting_color.
WorkerPush(t) ==
    LET w == workers[t]
    IN /\ w.pc = "push"
       /\ IF w.k <= Len(multi.volumes_den_)
          THEN LET v == multi.volumes_den_[w.k]
                   sc == vol_eval_scalar(v, w.p)
               IN /\ tl_scalars' = [tl_scalars EXCEPT ![ScratchOf(t)] =
                                        Append(@, sc)]
                  /\ workers' = [workers EXCEPT ![t] =
                        [w EXCEPT !.k = @ + 1, !.sum = @ + sc,
                                  !.undef = @ \/ ~has_scalar(v)]]
          ELSE /\ workers' = [workers EXCEPT ![t] =
                        [w EXCEPT !.pc = "weigh", !.i = 1]]
               /\ UNCHANGED tl_scalars
       /\ UNCHANGED <<multiVars, gridVars, surfVars, restVars>>

\* One round of the weighting loop:
\* resulting_color += (scalars[i] / sum) * volumes_alb_[i]->eval_color(p)
WorkerWeigh(t) ==
    LET w == workers[t]
        sc == tl_scalars[ScratchOf(t)]
    IN /\ w.pc = "weigh"
       /\ w.i <= multi.size_
       /\ IF w.i <= Len(sc) /\ w.i <= Len(multi.volumes_alb_)
          THEN LET c == vol_eval_color(multi.volumes_alb_[w.i], w.p)
               IN workers' = [workers EXCEPT ![t] =
                     [w EXCEPT !.i = @ + 1,
                               !.num = [a \in Axes |-> w.num[a] + sc[w.i] * c[a]],
                               !.undef = @ \/ ~has_color(multi.volumes_alb_[w.i])]]
          ELSE workers' = [workers EXCEPT ![t] =
                     [w EXCEPT !.i = @ + 1, !.undef = TRUE]]
       /\ UNCHANGED <<tl_scalars, multiVars, gridVars, surfVars, restVars>>

\* After the weighting loop: scalars.clear(); return resulting_color
WorkerClear(t) ==
    LET w == workers[t]
    IN /\ w.pc = "weigh"
       /\ w.i > multi.size_
       /\ tl_scalars' = [tl_scalars EXCEPT ![ScratchOf(t)] = << >>]
       /\ workers' = [workers EXCEPT ![t] =
             [w EXCEPT !.pc = "done",
                       !.color =
                          IF w.undef
                          THEN [kind |-> "undefined", num |-> Vec3(0, 0, 0),
                                den |-> 1]
                          ELSE IF w.sum = 0 /\ multi.size_ > 0
                          THEN [kind |-> "nan", num |-> Vec3(0, 0, 0), den |-> 1]
                          ELSE [kind |-> "value", num |-> w.num,
                                den |-> IF multi.size_ > 0 THEN w.sum ELSE 1]]]
       /\ UNCHANGED <<multiVars, gridVars, surfVars, restVars>>

\* The caller on thread t has taken the colour.
WorkerReturn(t) ==
    /\ workers[t].pc = "done"
    /\ workers' = [workers EXCEPT ![t] = IdleWorker]
    /\ UNCHANGED <<tl_scalars, multiVars, gridVars, surfVars, restVars>>

ThreadsNext ==
    \E t \in Threads :
        \/ WorkerCall(t) \/ WorkerPush(t) \/ WorkerWeigh(t)
        \/ WorkerClear(t) \/ WorkerReturn(t)

(* ------------- Point Geometry and the geometry utilities --------------- *)
(* Vectors have integer components.  A direction of length UnitLen stands  *)
(* for a unit vector, so a dot product of two directions is UnitLen^2      *)
(* times the cosine.  Square roots stay symbolic: a real is                *)
(* [n, d, r], the number n / (d * sqrt(L2)^r) for the L2 of the call.      *)

\* The length of the components' unit.
UnitLen == 5

\* Largest coordinate of a position.
MaxCoord == 1

Dot(a, b) == a[1] * b[1] + a[2] * b[2] + a[3] * b[3]

Neg(a) == [k \in Axes |-> 0 - a[k]]

Sub(a, b) == [k \in Axes |-> a[k] - b[k]]

Abs(x) == IF x < 0 THEN 0 - x ELSE x

\* The unit vectors with whole components.
UnitVecs ==
    { w \in [Axes -> (0 - UnitLen)..UnitLen] : Dot(w, w) = UnitLen * UnitLen }

Orthonormal(a, b, c) ==
    /\ a \in UnitVecs /\ b \in UnitVecs /\ c \in UnitVecs
    /\ Dot(a, b) = 0 /\ Dot(a, c) = 0 /\ Dot(b, c) = 0

\* math::orthonormalBasis(n): some orthonormal basis of the tangent plane
\* of the unit normal n.
math_orthonormalBasis(n) ==
    { uv \in UnitVecs \X UnitVecs : Orthonormal(n, uv[1], uv[2]) }

\* The normals and directions the callers pass.
Normals == { Vec3(0, 0, 5), Vec3(3, 4, 0), Vec3(0, -4, 3) }

\* The positions the callers pass.
Positions == { Vec3(x, 0, z) : x \in 0..MaxCoord, z \in 0..1 }

\* What a field of a PointGeometry holds that no statement assigned.
Garbage == { Vec3(0, 0, 0), Vec3(9, 9, 9) }

\* makeInfinite with degenerated set as well.
makeInfinite_Degenerated(wo, garbage) ==
    [degenerated |-> TRUE, infinite |-> TRUE, p |-> garbage, n |-> wo,
     t |-> garbage, u |-> garbage, v |-> garbage]

\* PointGeometry::makeDegenerated(p); n, t, u and v stay unassigned
makeDegenerated(p, garbage) ==
    [degenerated |-> TRUE, infinite |-> FALSE, p |-> p, n |-> garbage,
     t |-> garbage, u |-> garbage, v |-> garbage]

\* PointGeometry::makeInfinite(wo); wo shares its storage with n, and p, t,
\* u and v stay unassigned
makeInfinite(wo, garbage) ==
    [degenerated |-> FALSE, infinite |-> TRUE, p |-> garbage, n |-> wo,
     t |-> garbage, u |-> garbage, v |-> garbage]

\* PointGeometry::makeOnSurface(p, n, t) (t = {} by default), with uv the pair that
\* math::orthonormalBasis(n) returns
makeOnSurface(p, n, t, uv) ==
    [degenerated |-> FALSE, infinite |-> FALSE, p |-> p, n |-> n,
     t |-> t, u |-> uv[1], v |-> uv[2]]

\* The basis as stored, whatever side wi comes from.
orthonormalBasis_NoFlip(s, wi) == <<s.n, s.u, s.v>>

\* PointGeometry::orthonormalBasis(wi)
orthonormalBasis(s, wi) ==
    LET i == Dot(wi, s.n) > 0
    IN <<IF i THEN s.n ELSE Neg(s.n), s.u, IF i THEN s.v ELSE Neg(s.v)>>

Real(n, d, r) == [n |-> n, d |-> d, r |-> r]

\* Equality of two reals of calls with the same L2.
RealEq(a, b) == a.r = b.r /\ a.n * b.d = b.n * a.d

\* cos = s.degenerated ? 1 : abs(dot(s.n, d)), for d = D / sqrt(L2)
Cosine(s, D) ==
    IF s.degenerated THEN Real(1, 1, 0) ELSE Real(Abs(Dot(s.n, D)), UnitLen, 1)

\* The geometry term with the second cosine taken at s1 as well.
geometryTerm_FirstNormal(s1, s2) ==
    LET D == Sub(s2.p, s1.p)
        L2 == Dot(D, D)
        cos1 == Cosine(s1, D)
        cos2 == Cosine(s1, Neg(D))
    IN IF L2 = 0 THEN [kind |-> "nan", L2 |-> 0, value |-> Real(0, 1, 0)]
       ELSE [kind |-> "value", L2 |-> L2,
             value |-> Real(cos1.n * cos2.n, cos1.d * cos2.d * L2,
                            cos1.r + cos2.r)]

\* surface::geometryTerm(s1, s2) = cos1 * cos2 / L2; with L2 = 0 the
\* direction is 0 / 0
geometryTerm(s1, s2) ==
    LET D == Sub(s2.p, s1.p)
        L2 == Dot(D, D)
        cos1 == Cosine(s1, D)
        cos2 == Cosine(s2, Neg(D))
    IN IF L2 = 0 THEN [kind |-> "nan", L2 |-> 0, value |-> Real(0, 1, 0)]
       ELSE [kind |-> "value", L2 |-> L2,
             value |-> Real(cos1.n * cos2.n, cos1.d * cos2.d * L2,
                            cos1.r + cos2.r)]

\* The distance with the test of s2.infinite left out.
distance_FirstOnly(s1, s2) ==
    IF s1.infinite THEN [n |-> Inf, root |-> FALSE]
    ELSE [n |-> Dot(Sub(s1.p, s2.p), Sub(s1.p, s2.p)), root |-> TRUE]

\* surface::distance(s1, s2): Inf, or glm::distance of the positions, the
\* square root (root) of the number n
distance(s1, s2) ==
    IF s1.infinite \/ s2.infinite THEN [n |-> Inf, root |-> FALSE]
    ELSE [n |-> Dot(Sub(s1.p, s2.p), Sub(s1.p, s2.p)), root |-> TRUE]

\* The values the three factories return.
PointGeometries ==
    { makeDegenerated(p, g) : p \in Positions, g \in Garbage }
    \cup { makeInfinite(wo, g) : wo \in Normals, g \in Garbage }
    \cup UNION { { makeOnSurface(p, n, Vec3(0, 0, 0), uv) :
                     p \in Positions, uv \in math_orthonormalBasis(n) } :
                 n \in Normals }

\* The fields of s1 (1) and s2 (2) that the operation op reads on its way
\* to the result: geometryTerm takes both positions and the n of every
\* point that is not degenerated; distance takes the positions when neither
\* point is infinite; opposite and orthonormalBasis take n (and u, v)
\* whatever the flags say.
FieldsRead(op, s1, s2) ==
    CASE op = "geometryTerm" ->
            { <<1, "p">>, <<2, "p">>, <<1, "degenerated">>,
              <<2, "degenerated">> }
            \cup (IF s1.degenerated THEN {} ELSE { <<1, "n">> })
            \cup (IF s2.degenerated THEN {} ELSE { <<2, "n">> })
      [] op = "distance" ->
            { <<1, "infinite">> }
            \cup (IF s1.infinite THEN {} ELSE { <<2, "infinite">> })
            \cup (IF s1.infinite \/ s2.infinite THEN {}
                  ELSE { <<1, "p">>, <<2, "p">> })
      [] op = "opposite" -> { <<1, "n">> }
      [] op = "orthonormalBasis" -> { <<1, "n">>, <<1, "u">>, <<1, "v">> }

\* A call in progress: the factory that made geom (or the interaction sp),
\* or the operation applied to s1 and s2 (or to s1 and the directions wi,
\* wo), the fields it read, and what it returned.
NoSurf == [op |-> "none", s1 |-> << >>, s2 |-> << >>, wi |-> Vec3(0, 0, 0),
           wo |-> Vec3(0, 0, 0), reads |-> {}, geom |-> << >>,
           basis |-> << >>, G |-> << >>, dist |-> << >>, opp |-> FALSE,
           sp |-> << >>]

MakeDegenerated ==
    /\ surf.op = "none"
    /\ \E p \in Positions, g \in Garbage :
          surf' = [NoSurf EXCEPT !.op = "makeDegenerated",
                                 !.geom = makeDegenerated(p, g)]
    /\ UNCHANGED <<gridVars, multiVars, threadVars, restVars>>

MakeInfinite ==
    /\ surf.op = "none"
    /\ \E wo \in Normals, g \in Garbage :
          surf' = [NoSurf EXCEPT !.op = "makeInfinite",
                                 !.geom = makeInfinite(wo, g)]
    /\ UNCHANGED <<gridVars, multiVars, threadVars, restVars>>

MakeOnSurface ==
    /\ surf.op = "none"
    /\ \E p \in Positions, n \in Normals :
          \E uv \in math_orthonormalBasis(n) :
              surf' = [NoSurf EXCEPT !.op = "makeOnSurface",
                                     !.geom = makeOnSurface(p, n, Vec3(0, 0, 0), uv)]
    /\ UNCHANGED <<gridVars, multiVars, threadVars, restVars>>

\* s.orthonormalBasis(wi) of an on-surface point s
OrthonormalBasis ==
    /\ surf.op = "none"
    /\ \E s \in PointGeometries, wi \in UnitVecs :
          /\ ~s.degenerated /\ ~s.infinite
          /\ surf' = [NoSurf EXCEPT !.op = "orthonormalBasis", !.s1 = s,
                                    !.wi = wi,
                                    !.reads = FieldsRead("orthonormalBasis", s, s),
                                    !.basis = orthonormalBasis(s, wi)]
    /\ UNCHANGED <<gridVars, multiVars, threadVars, restVars>>

\* surface::geometryTerm(s1, s2)
GeometryTerm ==
    /\ surf.op = "none"
    /\ \E s1 \in PointGeometries, s2 \in PointGeometries :
          surf' = [NoSurf EXCEPT !.op = "geometryTerm", !.s1 = s1,
                                 !.s2 = s2,
                                 !.reads = FieldsRead("geometryTerm", s1, s2),
                                 !.G = geometryTerm(s1, s2)]
    /\ UNCHANGED <<gridVars, multiVars, threadVars, restVars>>

\* surface::distance(s1, s2)
Distance ==
    /\ surf.op = "none"
    /\ \E s1 \in PointGeometries, s2 \in PointGeometries :
          surf' = [NoSurf EXCEPT !.op = "distance", !.s1 = s1, !.s2 = s2,
                                 !.reads = FieldsRead("distance", s1, s2),
                                 !.dist = distance(s1, s2)]
    /\ UNCHANGED <<gridVars, multiVars, threadVars, restVars>>

\* s.opposite(w1, w2) of any point s: dot(w1, n) * dot(w2, n) <= 0
Opposite ==
    /\ surf.op = "none"
    /\ \E s \in PointGeometries, w1 \in Normals, w2 \in Normals :
          surf' = [NoSurf EXCEPT !.op = "opposite", !.s1 = s, !.wi = w1,
                                 !.wo = w2,
                                 !.reads = FieldsRead("opposite", s, s),
                                 !.opp = (Dot(w1, s.n) * Dot(w2, s.n) <= 0)]
    /\ UNCHANGED <<gridVars, multiVars, threadVars, restVars>>

\* Largest primitive index of an interaction.
MaxPrimitive == 1

\* SceneInteraction::makeSurfaceInteraction(primitive, comp, geom); set is
\* the members the factory assigns, cameraCond stays unassigned
MakeSurfaceInteraction ==
    /\ surf.op = "none"
    /\ \E primitive \in 0..MaxPrimitive, geom \in PointGeometries,
          junk \in Garbage :
          surf' = [NoSurf EXCEPT
                     !.op = "makeSurfaceInteraction",
                     !.sp = [primitive |-> primitive, comp |-> 0,
                             geom |-> geom, endpoint |-> FALSE,
                             medium |-> FALSE, terminator |-> "none",
                             cameraCond |-> junk,
                             set |-> {"primitive", "comp", "geom", "endpoint",
                                      "medium", "terminator"}]]
    /\ UNCHANGED <<gridVars, multiVars, threadVars, restVars>>

\* SceneInteraction::makeMediumInteraction(primitive, comp, geom)
MakeMediumInteraction ==
    /\ surf.op = "none"
    /\ \E primitive \in 0..MaxPrimitive, geom \in PointGeometries,
          junk \in Garbage :
          surf' = [NoSurf EXCEPT
                     !.op = "makeMediumInteraction",
                     !.sp = [primitive |-> primitive, comp |-> 0,
                             geom |-> geom, endpoint |-> FALSE,
                             medium |-> TRUE, terminator |-> "none",
                             cameraCond |-> junk,
                             set |-> {"primitive", "comp", "geom", "endpoint",
                                      "medium", "terminator"}]]
    /\ UNCHANGED <<gridVars, multiVars, threadVars, restVars>>

\* SceneInteraction::makeCameraEndpoint(primitive, comp, geom, window,
\* aspectRatio); the window and the ratio are one vector here
MakeCameraEndpoint ==
    /\ surf.op = "none"
    /\ \E primitive \in 0..MaxPrimitive, geom \in PointGeometries,
          cond \in Normals :
          surf' = [NoSurf EXCEPT
                     !.op = "makeCameraEndpoint",
                     !.sp = [primitive |-> primitive, comp |-> 0,
                             geom |-> geom, endpoint |-> TRUE,
                             medium |-> FALSE, terminator |-> "none",
                             cameraCond |-> cond,
                             set |-> {"primitive", "comp", "geom", "endpoint",
                                      "medium", "terminator", "cameraCond"}]]
    /\ UNCHANGED <<gridVars, multiVars, threadVars, restVars>>

\* SceneInteraction::makeLightEndpoint(primitive, comp, geom)
MakeLightEndpoint ==
    /\ surf.op = "none"
    /\ \E primitive \in 0..MaxPrimitive, geom \in PointGeometries,
          junk \in Garbage :
          surf' = [NoSurf EXCEPT
                     !.op = "makeLightEndpoint",
                     !.sp = [primitive |-> primitive, comp |-> 0,
                             geom |-> geom, endpoint |-> TRUE,
                             medium |-> FALSE, terminator |-> "none",
                             cameraCond |-> junk,
                             set |-> {"primitive", "comp", "geom", "endpoint",
                                      "medium", "terminator"}]]
    /\ UNCHANGED <<gridVars, multiVars, threadVars, restVars>>

\* makeCameraTerminator with the endpoint flag raised.
MakeCameraTerminator_Endpoint ==
    /\ surf.op = "none"
    /\ \E cond \in Normals, junk \in Garbage, flag \in BOOLEAN :
          surf' = [NoSurf EXCEPT
                     !.op = "makeCameraTerminator",
                     !.sp = [primitive |-> junk[1], comp |-> junk[2],
                             geom |-> [degenerated |-> flag,
                                       infinite |-> flag, p |-> junk,
                                       n |-> junk, t |-> junk, u |-> junk,
                                       v |-> junk],
                             endpoint |-> TRUE, medium |-> FALSE,
                             terminator |-> "Camera", cameraCond |-> cond,
                             set |-> {"endpoint", "medium", "terminator",
                                      "cameraCond"}]]
    /\ UNCHANGED <<gridVars, multiVars, threadVars, restVars>>

\* SceneInteraction::makeCameraTerminator(window, aspectRatio); primitive,
\* comp and geom stay unassigned
MakeCameraTerminator ==
    /\ surf.op = "none"
    /\ \E cond \in Normals, junk \in Garbage, flag \in BOOLEAN :
          surf' = [NoSurf EXCEPT
                     !.op = "makeCameraTerminator",
                     !.sp = [primitive |-> junk[1], comp |-> junk[2],
                             geom |-> [degenerated |-> flag,
                                       infinite |-> flag, p |-> junk,
                                       n |-> junk, t |-> junk, u |-> junk,
                                       v |-> junk],
                             endpoint |-> FALSE, medium |-> FALSE,
                             terminator |-> "Camera", cameraCond |-> cond,
                             set |-> {"endpoint", "medium", "terminator",
                                      "cameraCond"}]]
    /\ UNCHANGED <<gridVars, multiVars, threadVars, restVars>>

\* The call returns to its caller.
SurfReturn ==
    /\ surf.op # "none"
    /\ surf' = NoSurf
    /\ UNCHANGED <<gridVars, multiVars, threadVars, restVars>>

SurfNext ==
    \/ MakeDegenerated \/ MakeInfinite \/ MakeOnSurface
    \/ OrthonormalBasis \/ GeometryTerm \/ Distance \/ Opposite
    \/ MakeSurfaceInteraction \/ MakeMediumInteraction
    \/ MakeCameraEndpoint \/ MakeLightEndpoint \/ MakeCameraTerminator
    \/ SurfReturn

(* ------------------------------- Accel --------------------------------- *)
(* The world of the queries is the x axis: a face is a triangle in the     *)
(* plane x = c, wide enough for every ray to cross its plane inside it,    *)
(* and a ray starts at x = o and runs in direction d (+1 or -1).           *)

\* Most primitives of a scene.
MaxPrims == 2

\* Largest coordinate of a ray origin and largest end of a range.
MaxWall == 2

\* Every crossing of the ray with a face of the scene, as a Hit: the
\* parameter t at which the ray crosses the plane of the face (not positive
\* when the plane is behind the origin), the primitive index and the face
\* index (the barycentric coordinates are left out).
Crossings(scene, ray) ==
    UNION { { [t |-> (scene[i][j] - ray.o) * ray.d, primitive |-> i - 1,
               face |-> j - 1] : j \in DOMAIN scene[i] } : i \in DOMAIN scene }

\* intersect with the range closed at tmin.
intersect_Closed(scene, ray, tmin, tmax) ==
    LET hits == { h \in Crossings(scene, ray) : tmin <= h.t /\ h.t <= tmax }
        Before(h, g) ==
            \/ h.t < g.t
            \/ h.t = g.t /\ h.primitive < g.primitive
            \/ h.t = g.t /\ h.primitive = g.primitive /\ h.face <= g.face
    IN IF hits = {} THEN [signal |-> "ok", hit |-> << >>]
       ELSE [signal |-> "ok",
             hit |-> <<CHOOSE h \in hits : \A g \in hits : Before(h, g)>>]

\* Accel::intersect(ray, tmin, tmax) on the index built from scene: the
\* optional is the empty sequence or a sequence of one Hit.  Of the
\* crossings in the range the first is returned: the nearest, among the
\* nearest the one of the lowest primitive index, then of the lowest face
\* index.
intersect(scene, ray, tmin, tmax) ==
    LET hits == { h \in Crossings(scene, ray) : tmin < h.t /\ h.t <= tmax }
        Before(h, g) ==
            \/ h.t < g.t
            \/ h.t = g.t /\ h.primitive < g.primitive
            \/ h.t = g.t /\ h.primitive = g.primitive /\ h.face <= g.face
    IN IF hits = {} THEN [signal |-> "ok", hit |-> << >>]
       ELSE [signal |-> "ok",
             hit |-> <<CHOOSE h \in hits : \A g \in hits : Before(h, g)>>]

\* The instance before build, no call in progress.
NoAccel == [built |-> FALSE, scene |-> << >>, op |-> "none",
            ray |-> [o |-> 0, d |-> 1], tmin |-> 0, tmax |-> 0,
            signal |-> "ok", hit |-> << >>]

\* Accel::build(scene), once, before any query.  A primitive of the scene
\* is a mesh: the planes of its faces, in face order.
Build ==
    /\ ~accel.built
    /\ \E scene \in UNION { [1..n -> { <<0>>, <<2>>, <<1, 1>>, <<2, 1>> }] :
                               n \in 0..MaxPrims } :
          accel' = [accel EXCEPT !.built = TRUE, !.scene = scene]
    /\ UNCHANGED <<gridVars, multiVars, threadVars, surfVars,
                   user, u_last, scopes, nest>>

\* A caller invokes intersect(ray, tmin, tmax) with tmin <= tmax.
Intersect ==
    /\ accel.built
    /\ accel.op = "none"
    /\ \E o \in 0..MaxWall, d \in {-1, 1}, tmin \in 0..MaxWall,
          tmax \in 0..MaxWall :
          /\ tmin <= tmax
          /\ LET ray == [o |-> o, d |-> d]
                 r == intersect(accel.scene, ray, tmin, tmax)
             IN accel' = [accel EXCEPT !.op = "intersect", !.ray = ray,
                                       !.tmin = tmin, !.tmax = tmax,
                                       !.signal = r.signal, !.hit = r.hit]
    /\ UNCHANGED <<gridVars, multiVars, threadVars, surfVars,
                   user, u_last, scopes, nest>>

\* The call returns to its caller.
AccelReturn ==
    /\ accel.op # "none"
    /\ accel' = [accel EXCEPT !.op = "none", !.ray = NoAccel.ray,
                              !.tmin = 0, !.tmax = 0, !.signal = "ok",
                              !.hit = << >>]
    /\ UNCHANGED <<gridVars, multiVars, threadVars, surfVars,
                   user, u_last, scopes, nest>>

(* --------------------- eval_color inside eval_color -------------------- *)
(* One thread, two compositors, each constructed once with success: outer, *)
(* whose albedo fields may name inner, and inner, whose fields are plain   *)
(* volumes.  The scratch is the function-local thread_local vector of      *)
(* Volume_Multi::eval_color: one vector per thread, whichever instance the *)
(* call is made on.                                                        *)

\* The name of the compositor inner in an albedo list; has_color() of a
\* Volume_Multi is true.
InnerMulti == 0

\* No call in progress.  stack: the frames of the eval_color calls, the
\* innermost last.  A frame: the instance m, the next index i of the
\* weighting loop, sum, resulting_color * sum as num / den, whether a read
\* went past the end of the vector (undef) or a term was 0 / 0 (nan), and
\* held: the value of scalars[i] when the left operand of the product
\* was evaluated before the call on the right.
NoNest == [outer |-> NoMulti, inner |-> NoMulti, p |-> 0, pc |-> "idle",
           stack |-> << >>, scratch |-> << >>, color |-> NoColor]

\* The entry of eval_color(p) on the instance m: sum = 0,
\* scalars.reserve(size_), then the loop over volumes_den_ pushes every
\* density onto the vector as it stands.
EnterFrame(which, m, scratch, p) ==
    LET pushed == [i \in DOMAIN m.volumes_den_ |->
                      vol_eval_scalar(m.volumes_den_[i], p)]
    IN [frame |-> [m |-> which, i |-> 1, sum |-> SeqSum(pushed),
                   num |-> Vec3(0, 0, 0), den |-> 1, undef |-> FALSE,
                   nan |-> FALSE,
                   held |-> [when |-> "none", w |-> 0, undef |-> FALSE]],
        scratch |-> scratch \o pushed]

\* The read of scalars[i]; past the end of the vector it is undefined.
ReadScratch(scratch, i) ==
    IF i <= Len(scratch) THEN [w |-> scratch[i], undef |-> FALSE]
    ELSE [w |-> 0, undef |-> TRUE]

\* resulting_color += (w / sum) * c in the frame f, for a colour c
Accumulate(f, read, c) ==
    [f EXCEPT !.i = @ + 1,
              !.num = [a \in Axes |-> f.num[a] * c.den + read.w * c.num[a] * f.den],
              !.den = f.den * c.den,
              !.undef = @ \/ read.undef \/ c.kind = "undefined",
              !.nan = @ \/ c.kind = "nan" \/ f.sum = 0,
              !.held = [when |-> "none", w |-> 0, undef |-> FALSE]]

\* A caller, with the colour of its last call taken, invokes
\* outer.eval_color(p).
NestCall ==
    /\ nest.pc # "running"
    /\ \E p \in Points :
          LET e == EnterFrame("outer", nest.outer, nest.scratch, p)
          IN nest' = [nest EXCEPT !.pc = "running", !.p = p,
                                  !.stack = <<e.frame>>,
                                  !.scratch = e.scratch,
                                  !.color = NoColor]
    /\ UNCHANGED <<gridVars, multiVars, threadVars, surfVars,
                   accel, user, u_last, scopes>>

\* One round of the weighting loop of the innermost call, for an albedo
\* field that is a plain volume.
NestWeigh ==
    /\ nest.pc = "running"
    /\ LET d == Len(nest.stack)
           f == nest.stack[d]
           m == IF f.m = "outer" THEN nest.outer ELSE nest.inner
       IN /\ f.i <= m.size_
          /\ m.volumes_alb_[f.i] # InnerMulti
          /\ LET c == [kind |-> "value",
                       num |-> vol_eval_color(m.volumes_alb_[f.i], nest.p),
                       den |-> 1]
             IN nest' = [nest EXCEPT !.stack[d] =
                           Accumulate(f, ReadScratch(nest.scratch, f.i), c)]
    /\ UNCHANGED <<gridVars, multiVars, threadVars, surfVars,
                   accel, user, u_last, scopes>>

\* One round of the weighting loop for an albedo field that is the
\* compositor inner: its eval_color is entered.  The operands of the
\* product are evaluated in either order, so scalars[i] is read before the
\* call or after it.
NestEnter ==
    /\ nest.pc = "running"
    /\ LET d == Len(nest.stack)
           f == nest.stack[d]
           m == IF f.m = "outer" THEN nest.outer ELSE nest.inner
       IN /\ f.i <= m.size_
          /\ m.volumes_alb_[f.i] = InnerMulti
          /\ \E when \in {"before", "after"} :
                LET read == ReadScratch(nest.scratch, f.i)
                    e == EnterFrame("inner", nest.inner, nest.scratch, nest.p)
                IN nest' = [nest EXCEPT
                              !.stack = Append(
                                  [nest.stack EXCEPT ![d].held =
                                      [when |-> when, w |-> read.w,
                                       undef |-> read.undef]],
                                  e.frame),
                              !.scratch = e.scratch]
    /\ UNCHANGED <<gridVars, multiVars, threadVars, surfVars,
                   accel, user, u_last, scopes>>

\* The weighting loop of the innermost call is over: scalars.clear(), and
\* resulting_color goes to the caller: the round of the loop that made the
\* call, or the caller of the outermost call.
NestLeave ==
    /\ nest.pc = "running"
    /\ LET d == Len(nest.stack)
           f == nest.stack[d]
           m == IF f.m = "outer" THEN nest.outer ELSE nest.inner
           c == IF f.undef
                THEN [kind |-> "undefined", num |-> Vec3(0, 0, 0), den |-> 1]
                ELSE IF f.nan
                THEN [kind |-> "nan", num |-> Vec3(0, 0, 0), den |-> 1]
                ELSE [kind |-> "value", num |-> f.num, den |-> f.den * f.sum]
       IN /\ f.i > m.size_
          /\ IF d = 1
             THEN nest' = [nest EXCEPT !.pc = "done", !.stack = << >>,
                                       !.scratch = << >>, !.color = c]
             ELSE LET g == nest.stack[d - 1]
                      read == IF g.held.when = "before"
                              THEN [w |-> g.held.w, undef |-> g.held.undef]
                              ELSE ReadScratch(<< >>, g.i)
                  IN nest' = [nest EXCEPT
                                !.stack = Append(SubSeq(nest.stack, 1, d - 2),
                                                 Accumulate(g, read, c)),
                                !.scratch = << >>]
    /\ UNCHANGED <<gridVars, multiVars, threadVars, surfVars,
                   accel, user, u_last, scopes>>

(* ---------------------------- user context ----------------------------- *)
(* The UserContext singleton behind the user API.  subs is the list of the *)
(* subsystems that are initialised, in the order they were initialised.    *)
(* assets_ is empty (a null pointer) or holds the content of the Assets    *)
(* object (the number of assets in it); a stream is the content saved in   *)
(* it.                                                                     *)

\* Most assets of a saved state.
MaxAssets == 3

\* Most ScopedInit objects alive at once.
MaxScopes == 3

\* UserContext(): initialized_ = false, assets_ empty
NoUser == [initialized_ |-> FALSE, assets_ |-> << >>, subs |-> << >>]

\* No user API call in progress.  log: the subsystem calls the call made,
\* in order.  out: the assets the call returned or wrote.  info: the
\* version was logged.
NoUserCall == [op |-> "none", signal |-> "ok", log |-> << >>, out |-> << >>,
               info |-> FALSE]

\* A check that lets every call through.
check_initialized_Never(u) == "ok"

\* UserContext::check_initialized
check_initialized(u) == IF u.initialized_ THEN "ok" ELSE "Uninitialized"

\* UserContext::init(prop): the subsystems it initialises, in order, then
\* reset(), then initialized_ = true.  prop is the set of the optional
\* keys given.  Initialising a subsystem that is running replaces its
\* instance.
init(u, prop) ==
    LET order == <<"exception", "logger", "parallel", "progress">>
                 \o (IF "debugio" \in prop THEN <<"debugio">> ELSE << >>)
                 \o (IF "debugio_server" \in prop
                     THEN <<"debugio_server">> ELSE << >>)
                 \o <<"objloader">>
        Older(x) == \A k \in DOMAIN order : order[k] # x
    IN [user |-> [initialized_ |-> TRUE, assets_ |-> <<0>>,
                  subs |-> SelectSeq(u.subs, Older) \o order],
        signal |-> "ok", log |-> order]

\* UserContext::shutdown: the check, then the shutdown of each subsystem
\* in the order of the statements, then initialized_ = false.
shutdown(u) ==
    IF check_initialized(u) # "ok"
    THEN [user |-> u, signal |-> check_initialized(u), log |-> << >>]
    ELSE [user |-> [u EXCEPT !.initialized_ = FALSE, !.subs = << >>],
          signal |-> "ok",
          log |-> <<"objloader", "debugio", "debugio_server", "progress",
                    "parallel", "logger", "exception">>]

\* lm::init(prop)
Init ==
    /\ u_last.op = "none"
    /\ \E prop \in SUBSET {"debugio", "debugio_server"} :
          LET r == init(user, prop)
          IN /\ user' = r.user
             /\ u_last' = [NoUserCall EXCEPT !.op = "init", !.log = r.log]
    /\ UNCHANGED <<gridVars, multiVars, threadVars, surfVars,
                   accel, scopes, nest>>

\* lm::shutdown()
Shutdown ==
    /\ u_last.op = "none"
    /\ LET r == shutdown(user)
       IN /\ user' = r.user
          /\ u_last' = [NoUserCall EXCEPT !.op = "shutdown",
                                          !.signal = r.signal, !.log = r.log]
    /\ UNCHANGED <<gridVars, multiVars, threadVars, surfVars,
                   accel, scopes, nest>>

\* lm::info(): the check, then the version is logged
Info ==
    /\ u_last.op = "none"
    /\ u_last' = [NoUserCall EXCEPT
                    !.op = "info", !.signal = check_initialized(user),
                    !.info = (check_initialized(user) = "ok")]
    /\ UNCHANGED <<gridVars, multiVars, threadVars, surfVars,
                   accel, user, scopes, nest>>

\* lm::reset(): a new, empty Assets object; nothing is checked
Reset ==
    /\ u_last.op = "none"
    /\ user' = [user EXCEPT !.assets_ = <<0>>]
    /\ u_last' = [NoUserCall EXCEPT !.op = "reset"]
    /\ UNCHANGED <<gridVars, multiVars, threadVars, surfVars,
                   accel, scopes, nest>>

\* lm::assets(): the pointer held by assets_; nothing is checked
Assets ==
    /\ u_last.op = "none"
    /\ u_last' = [NoUserCall EXCEPT !.op = "assets", !.out = user.assets_]
    /\ UNCHANGED <<gridVars, multiVars, threadVars, surfVars,
                   accel, user, scopes, nest>>

\* lm::serialize(os): the check, then the assets are saved to os
Serialize ==
    /\ u_last.op = "none"
    /\ u_last' = [NoUserCall EXCEPT
                    !.op = "serialize", !.signal = check_initialized(user),
                    !.out = IF check_initialized(user) = "ok"
                            THEN user.assets_ ELSE << >>]
    /\ UNCHANGED <<gridVars, multiVars, threadVars, surfVars,
                   accel, user, scopes, nest>>

\* lm::deserialize(is): the check, then the assets are loaded from is, a
\* stream that holds a saved state
Deserialize ==
    /\ u_last.op = "none"
    /\ \E is \in 0..MaxAssets :
          /\ user' = IF check_initialized(user) = "ok"
                     THEN [user EXCEPT !.assets_ = <<is>>] ELSE user
          /\ u_last' = [NoUserCall EXCEPT
                          !.op = "deserialize",
                          !.signal = check_initialized(user)]
    /\ UNCHANGED <<gridVars, multiVars, threadVars, surfVars,
                   accel, scopes, nest>>

\* ScopedInit(): init() with the default arguments
ScopeEnter ==
    /\ u_last.op = "none"
    /\ scopes < MaxScopes
    /\ user' = init(user, {}).user
    /\ scopes' = scopes + 1
    /\ u_last' = [NoUserCall EXCEPT !.op = "ScopedInit",
                                    !.log = init(user, {}).log]
    /\ UNCHANGED <<gridVars, multiVars, threadVars, surfVars, accel, nest>>

\* ~ScopedInit() of the innermost scope: shutdown().  The destructor is
\* noexcept, so an exception leaving shutdown ends the program.
ScopeLeave ==
    /\ u_last.op = "none"
    /\ scopes > 0
    /\ user' = shutdown(user).user
    /\ scopes' = scopes - 1
    /\ u_last' = [NoUserCall EXCEPT !.op = "~ScopedInit",
                                    !.signal = shutdown(user).signal,
                                    !.log = shutdown(user).log]
    /\ UNCHANGED <<gridVars, multiVars, threadVars, surfVars, accel, nest>>

\* The call returns to its caller, or the exception reaches it; nothing
\* follows an exception that left a destructor.
UserReturn ==
    /\ u_last.op # "none"
    /\ ~(u_last.op = "~ScopedInit" /\ u_last.signal # "ok")
    /\ u_last' = NoUserCall
    /\ UNCHANGED <<gridVars, multiVars, threadVars, surfVars,
                   accel, user, scopes, nest>>

(* -------------------------- specifications ----------------------------- *)
ThreadsIdle ==
    /\ workers = [t \in Threads |-> IdleWorker]
    /\ tl_scalars = [t \in Threads |-> << >>]

GridIdle ==
    /\ files = NoFiles
    /\ grid = NoGrid
    /\ g_last = NoQuery
    /\ heap = [live |-> 0, destroyed |-> FALSE]

MultiIdle ==
    /\ multi = [NoMulti EXCEPT !.bound_ = NoBound]
    /\ scalars = << >>
    /\ m_ok = FALSE
    /\ m_last = NoCall

SurfIdle == surf = NoSurf

\* No scene built, the user context as constructed, no eval_color running.
RestIdle ==
    /\ accel = NoAccel
    /\ user = NoUser
    /\ u_last = NoUserCall
    /\ scopes = 0
    /\ nest = NoNest

\* The Grid Volume alone.
InitGrid == GridInit /\ MultiIdle /\ ThreadsIdle /\ SurfIdle /\ RestIdle

SpecGrid == InitGrid /\ [][GridNext]_vars

\* The loader and the disk.
SpecFiles == InitGrid /\ [][FilesNext]_vars

\* The compositor alone.
InitMulti == GridIdle /\ MultiInit /\ ThreadsIdle /\ SurfIdle /\ RestIdle

SpecMulti == InitMulti /\ [][MultiNext]_vars

\* The query phase of the compositor on worker threads.
InitThreads == GridIdle /\ ThreadsInit /\ SurfIdle /\ RestIdle

SpecThreads == InitThreads /\ [][ThreadsNext]_vars

\* Point geometries and the geometry utilities.
InitSurf == GridIdle /\ MultiIdle /\ ThreadsIdle /\ SurfIdle /\ RestIdle

SpecSurf == InitSurf /\ [][SurfNext]_vars

\* Every component as constructed.
InitIdle == GridIdle /\ MultiIdle /\ ThreadsIdle /\ SurfIdle /\ RestIdle

\* One Accel instance: build, then queries.
SpecAccel == InitIdle /\ [][Build \/ Intersect \/ AccelReturn]_vars

\* The user API, called directly.
SpecUser ==
    InitIdle /\ [][\/ Init \/ Shutdown \/ Info \/ Reset \/ Assets
                   \/ Serialize \/ Deserialize \/ UserReturn]_vars

\* The user API, initialised and shut down by ScopedInit scopes.
SpecScopes ==
    InitIdle /\ [][\/ ScopeEnter \/ ScopeLeave \/ Info \/ Reset \/ Assets
                   \/ Serialize \/ Deserialize \/ UserReturn]_vars

\* A compositor among the albedo fields of a compositor.
\* The configurations: the lists of the two construct calls.
InitNested ==
    /\ GridIdle /\ MultiIdle /\ ThreadsIdle /\ SurfIdle
    /\ accel = NoAccel /\ user = NoUser /\ u_last = NoUserCall /\ scopes = 0
    /\ \E n \in 1..MaxList, k \in 1..MaxList :
          \E oden \in [1..n -> {1, 2}], oalb \in [1..n -> {InnerMulti, 2, 3}],
             iden \in [1..k -> {1, 2}], ialb \in [1..k -> {2, 3}] :
             nest = [NoNest EXCEPT
                       !.outer = [NoMulti EXCEPT !.size_ = n,
                                                 !.volumes_den_ = oden,
                                                 !.volumes_alb_ = oalb],
                       !.inner = [NoMulti EXCEPT !.size_ = k,
                                                 !.volumes_den_ = iden,
                                                 !.volumes_alb_ = ialb]]

SpecNested ==
    InitNested /\ [][NestCall \/ NestWeigh \/ NestEnter \/ NestLeave]_vars

(* ------------------------------ claims --------------------------------- *)
Voxels(g) ==
    { Vec3(x, y, z) : x \in 0..(g.dimension_[1] - 1),
                      y \in 0..(g.dimension_[2] - 1),
                      z \in 0..(g.dimension_[3] - 1) }

VoxelCount(g) == g.dimension_[1] * g.dimension_[2] * g.dimension_[3]

InRange(g, c) == \A a \in Axes : 0 <= c[a] /\ c[a] < g.dimension_[a]

\* C1: after construct has loaded the converted pair, the integer lookup
\* eval_scalar(x, y, z) of every voxel inside the dimension triple returns
\* the sample the converter wrote for it (x fastest, z slowest).
C1_PayloadRoundTrip ==
    (grid.constructed /\ files.payload_exists) =>
        \A c \in Voxels(grid) :
            eval_scalar_i(grid, c[1], c[2], c[3])
                = files.payload[c[3] * grid.dimension_[1] * grid.dimension_[2]
                                + c[2] * grid.dimension_[1] + c[1] + 1]

\* C2: eval_scalar at the lattice position bound.min + (i, j, k) * step_size
\* of a voxel (i, j, k) inside the dimension triple has weights of 0 or 1 on
\* every axis and returns exactly the stored sample of that voxel.
C2_LatticeExact ==
    g_last.op = "eval_scalar" =>
        \A c \in Voxels(grid) :
            (\A a \in Axes : g_last.p[a]
                 = grid.bound_.min[a] + c[a] * files.meta.step_size)
            => /\ \A a \in Axes : g_last.t[a].n \in {0, g_last.t[a].d}
               /\ RatEq(g_last.result,
                        Rat(eval_scalar_i(grid, c[1], c[2], c[3]), 1))

\* C3: eval_scalar(p) of a point p outside bound() on at least one axis
\* returns exactly 0.
C3_ZeroOutsideBound ==
    (/\ g_last.op = "eval_scalar"
     /\ \E a \in Axes : \/ g_last.p[a] < grid.bound_.min[a]
                        \/ g_last.p[a] > grid.bound_.max[a])
    => g_last.result.n = 0

\* C4: each of the eight corners of eval_scalar(p) whose lattice index is
\* outside [0, voxel_count) on some axis contributes 0 and reads nothing, and
\* every read of the payload array is at a flat index inside
\* [0, dimension.x * dimension.y * dimension.z), the size of the array.
C4_CornersInsideOrZero ==
    g_last.op = "eval_scalar" =>
        /\ Len(grid.volume_) = VoxelCount(grid)
        /\ { g_last.corners[i].c : i \in DOMAIN g_last.corners }
              = { [a \in Axes |-> g_last.lowerLeft[a] + d[a]] :
                    d \in [Axes -> {0, 1}] }
        /\ \A i \in DOMAIN g_last.corners :
              LET k == g_last.corners[i]
              IN /\ ~InRange(grid, k.c) => (k.value = 0 /\ k.read = -1)
                 /\ k.read # -1 => k.read \in 0..(VoxelCount(grid) - 1)
                 /\ InRange(grid, k.c) => k.value = grid.volume_[k.read + 1]

\* A query next to the boundary: some corners are outside the lattice and
\* contribute 0, others are read from the array.
C4_Witness ==
    /\ g_last.op = "eval_scalar"
    /\ \E i \in DOMAIN g_last.corners :
          ~InRange(grid, g_last.corners[i].c) /\ g_last.corners[i].value = 0
    /\ \E i \in DOMAIN g_last.corners :
          /\ g_last.corners[i].read = VoxelCount(grid) - 1
          /\ g_last.corners[i].value # 0

\* C5: max_scalar() is an upper bound on eval_scalar(p) for every p, for a
\* grid converted from a non-negative field with any user scale.
C5_MaxScalarBounds ==
    g_last.op = "eval_scalar" => RatLeq(g_last.result, grid.max_scalar_)

\* The density the fields of the instance have in total at p.
TotalDensity(m, p) ==
    SeqSum([i \in DOMAIN m.volumes_den_ |-> vol_eval_scalar(m.volumes_den_[i], p)])

\* C6: eval_color(p) where the densities sum to zero returns the zero
\* colour, never an indeterminate value.
C6_ZeroDensityZeroColor ==
    (m_last.op = "eval_color" /\ TotalDensity(multi, m_last.p) = 0)
    => (m_last.color.kind = "value" /\ m_last.color.num = Vec3(0, 0, 0))

\* C7: eval_color(p) where the total density is positive is the sum over the
\* fields i of (density_i(p) / total) * albedo_i(p), for a compositor whose
\* density fields all have a scalar and whose albedo fields all have a colour.
C7_NormalizedWeights ==
    (/\ m_last.op = "eval_color"
     /\ \A i \in DOMAIN multi.volumes_den_ : has_scalar(multi.volumes_den_[i])
     /\ \A i \in DOMAIN multi.volumes_alb_ : has_color(multi.volumes_alb_[i])
     /\ TotalDensity(multi, m_last.p) > 0)
    => /\ m_last.color.kind = "value"
       /\ Len(multi.volumes_alb_) = Len(multi.volumes_den_)
       /\ \A a \in Axes :
             m_last.color.num[a] * TotalDensity(multi, m_last.p)
               = m_last.color.den
                 * SeqSum([i \in DOMAIN multi.volumes_den_ |->
                       vol_eval_scalar(multi.volumes_den_[i], m_last.p)
                       * vol_eval_color(multi.volumes_alb_[i], m_last.p)[a]])

\* The configurations construct has to refuse.
MustFail(alb, den) ==
    \/ Len(den) = 0 \/ Len(alb) = 0
    \/ Len(den) # Len(alb)
    \/ \E i \in DOMAIN den : ~has_scalar(den[i])
    \/ \E i \in DOMAIN alb : ~has_color(alb[i])

\* C8: construct fails with an invalid-argument error whenever a list is
\* empty, the lists differ in length, a density field has no scalar or an
\* albedo field has no colour, and succeeds otherwise.
C8_ConstructFailsIffInvalid ==
    m_last.op = "construct" =>
        /\ m_last.signal \in {"ok", "InvalidArgument"}
        /\ m_last.signal = "InvalidArgument" <=> MustFail(m_last.alb, m_last.den)

\* Lists of one length, every albedo with a colour, and the second density
\* field without a scalar: refused.
C8_Witness ==
    /\ m_last.op = "construct"
    /\ Len(m_last.den) = 2 /\ Len(m_last.alb) = 2
    /\ \A i \in DOMAIN m_last.alb : has_color(m_last.alb[i])
    /\ has_scalar(m_last.den[1]) /\ ~has_scalar(m_last.den[2])
    /\ m_last.signal = "InvalidArgument"

\* C9: a construct call that fails leaves the density list, the albedo
\* list, size_, max_scalar_ and bound_ as they were before the call.
C9_FailedConstructChangesNothing ==
    (m_last.op = "construct" /\ m_last.signal = "InvalidArgument")
    => multi = m_last.pre

\* C10: after a construct call that succeeds, max_scalar() is the sum of
\* max_scalar() over the density fields named in the call.
C10_MaxScalarIsSum ==
    (m_last.op = "construct" /\ m_last.signal = "ok")
    => multi.max_scalar_
         = SeqSum([i \in DOMAIN m_last.den |-> max_scalar(m_last.den[i])])

\* C11: eval_scalar(p) of a compositor whose density fields all have a
\* scalar is the sum of eval_scalar(p) over all the fields of its density
\* list.
C11_ScalarIsSum ==
    (/\ m_last.op = "eval_scalar"
     /\ \A i \in DOMAIN multi.volumes_den_ : has_scalar(multi.volumes_den_[i]))
    => /\ m_last.scalar.kind = "value"
       /\ m_last.scalar.value = TotalDensity(multi, m_last.p)

\* Two density fields that differ at p, both counted.
C11_Witness ==
    /\ m_last.op = "eval_scalar"
    /\ Len(multi.volumes_den_) = 2
    /\ vol_eval_scalar(multi.volumes_den_[1], m_last.p) = 1
    /\ vol_eval_scalar(multi.volumes_den_[2], m_last.p) = 2
    /\ m_last.scalar = [kind |-> "value", value |-> 3]

\* The densities the call of thread t has pushed so far.
Pushed(t) ==
    LET w == workers[t]
        n == IF w.pc = "push" THEN w.k - 1
             ELSE IF w.pc = "weigh" THEN Len(multi.volumes_den_) ELSE 0
    IN [j \in 1..n |-> vol_eval_scalar(multi.volumes_den_[j], w.p)]

\* C12: with eval_color calls of different worker threads interleaved on
\* one constructed compositor, the scratch of each thread holds exactly the
\* densities its own call has pushed, and each call returns the colour the
\* same call returns when it runs alone.
C12_ThreadsDoNotInterfere ==
    \A t \in Threads :
        /\ tl_scalars[t] = Pushed(t)
        /\ workers[t].pc = "done"
              => workers[t].color = eval_color(multi, << >>, workers[t].p)

\* One call has returned a colour while the call of another thread, at
\* another point, is in its weighting loop with its weights in its scratch.
C12_Witness ==
    \E t1 \in Threads, t2 \in Threads :
        /\ workers[t1].pc = "done" /\ workers[t1].color.kind = "value"
        /\ workers[t1].color.num # Vec3(0, 0, 0)
        /\ workers[t2].pc = "weigh" /\ workers[t2].i = 2
        /\ workers[t2].p # workers[t1].p
        /\ Len(tl_scalars[t2]) = 2 /\ tl_scalars[t2][1] # tl_scalars[t2][2]

\* C13: march on the Grid Volume ends in a not-supported failure signalled
\* to the caller; it never returns normally.
C13_MarchFailsLoudly ==
    g_last.op = "march" => g_last.signal # "ok"

\* C14: construct on a converted pair whose sidecar or payload file is
\* missing fails, and construct on a source that cannot be loaded fails; it
\* completes normally only when the files it needs are there.
C14_MissingFileFails ==
    g_last.op = "construct" =>
        /\ (g_last.path = ".cvdb"
              /\ (~files.meta_exists \/ ~files.payload_exists))
            => g_last.signal # "ok"
        /\ g_last.signal = "ok" => (files.meta_exists /\ files.payload_exists)

\* C15: on each axis convert moves bound.min down and bound.max up by the
\* same amount, never a negative one, and the padded extent is an exact
\* multiple of step_size, unless the remainder of the source extent is below
\* Eps, when the bound is not padded at all.
C15_SymmetricPadding ==
    (g_last.op = "construct" /\ g_last.path = ".vdb" /\ g_last.signal = "ok")
    => \A a \in Axes :
          LET extent == g_last.src.max[a] - g_last.src.min[a]
              lo == g_last.src.min[a] - files.meta.bound.min[a]
              hi == files.meta.bound.max[a] - g_last.src.max[a]
              padded == files.meta.bound.max[a] - files.meta.bound.min[a]
          IN /\ lo = hi
             /\ lo >= 0
             /\ IF extent % g_last.step_size < Eps
                THEN padded = extent
                ELSE padded % g_last.step_size = 0

\* A conversion that pads one axis by a whole tick on each side and leaves
\* another, whose remainder is below Eps but not zero, as it is.
C15_Witness ==
    /\ g_last.op = "construct" /\ g_last.path = ".vdb" /\ g_last.signal = "ok"
    /\ \E a \in Axes :
          /\ files.meta.bound.min[a] < g_last.src.min[a]
          /\ files.meta.bound.max[a] > g_last.src.max[a]
    /\ \E a \in Axes :
          /\ (g_last.src.max[a] - g_last.src.min[a]) % g_last.step_size = 1
          /\ files.meta.bound.max[a] = g_last.src.max[a]

\* The position of the last sample convert takes on axis a.
LastSample(a) ==
    files.meta.bound.min[a] + (files.meta.dimension[a] - 1) * g_last.step_size

\* The voxel counts are round(padded_extent / step_size) + 1, the first
\* sample is taken at the padded bound.min, and count_x * count_y * count_z
\* samples are written.
CountsAndSamples ==
    /\ \A a \in Axes :
          LET padded == files.meta.bound.max[a] - files.meta.bound.min[a]
              cells == files.meta.dimension[a] - 1
          IN /\ cells >= 0
             /\ 2 * cells * g_last.step_size - g_last.step_size <= 2 * padded
             /\ 2 * padded < 2 * cells * g_last.step_size + g_last.step_size
    /\ Len(files.payload) = files.meta.dimension[1] * files.meta.dimension[2]
                               * files.meta.dimension[3]
    /\ files.payload[1] = vbdloaderEvalScalar(g_last.src, files.meta.bound.min)
    /\ files.payload[Len(files.payload)]
          = vbdloaderEvalScalar(g_last.src, [a \in Axes |-> LastSample(a)])

C17_ExactlyOneKind ==
    surf.op \in {"makeDegenerated", "makeInfinite", "makeOnSurface"} =>
        /\ ~(surf.geom.degenerated /\ surf.geom.infinite)
        /\ surf.op = "makeDegenerated" => surf.geom.degenerated
        /\ surf.op = "makeInfinite" => surf.geom.infinite
        /\ (~surf.geom.degenerated /\ ~surf.geom.infinite)
              <=> surf.op = "makeOnSurface"

\* A point at infinity: infinite, not degenerated, holding its direction.
C17_Witness ==
    /\ surf.op = "makeInfinite"
    /\ surf.geom.infinite /\ ~surf.geom.degenerated
    /\ surf.geom.n = Vec3(3, 4, 0)

\* C18: for an on-surface point whose n, u, v are mutually orthogonal unit
\* vectors and every direction wi, orthonormalBasis(wi) returns three
\* mutually orthogonal unit vectors, the first of them n or -n and with
\* dot(wi, n') >= 0.
C18_BasisFollowsIncident ==
    (/\ surf.op = "orthonormalBasis"
     /\ Orthonormal(surf.s1.n, surf.s1.u, surf.s1.v))
    => /\ Orthonormal(surf.basis[1], surf.basis[2], surf.basis[3])
       /\ surf.basis[1] \in {surf.s1.n, Neg(surf.s1.n)}
       /\ Dot(surf.wi, surf.basis[1]) >= 0

\* A direction from below the surface: the normal is flipped.
C18_Witness ==
    /\ surf.op = "orthonormalBasis"
    /\ Dot(surf.wi, surf.s1.n) < 0
    /\ surf.basis[1] = Neg(surf.s1.n)
    /\ Dot(surf.wi, surf.basis[1]) > 0

\* C19: geometryTerm(s1, s2) = geometryTerm(s2, s1) for every two
\* on-surface points at distinct positions.
C19_GeometryTermSymmetric ==
    (/\ surf.op = "geometryTerm"
     /\ ~surf.s1.degenerated /\ ~surf.s1.infinite
     /\ ~surf.s2.degenerated /\ ~surf.s2.infinite
     /\ surf.s1.p # surf.s2.p)
    => /\ surf.G.kind = "value"
       /\ geometryTerm(surf.s2, surf.s1).kind = "value"
       /\ geometryTerm(surf.s2, surf.s1).L2 = surf.G.L2
       /\ RealEq(surf.G.value, geometryTerm(surf.s2, surf.s1).value)

\* Two on-surface points with different normals and different cosines, and
\* a geometry term that is not zero.
C19_Witness ==
    /\ surf.op = "geometryTerm"
    /\ ~surf.s1.degenerated /\ ~surf.s1.infinite
    /\ ~surf.s2.degenerated /\ ~surf.s2.infinite
    /\ surf.s1.p # surf.s2.p
    /\ Abs(Dot(surf.s1.n, Sub(surf.s2.p, surf.s1.p)))
          # Abs(Dot(surf.s2.n, Sub(surf.s2.p, surf.s1.p)))
    /\ surf.G.kind = "value" /\ surf.G.value.n > 0

\* The distance d is the number Inf.
DistIsInf(d) ==
    IF d.root THEN d.n \div Inf = Inf /\ d.n % Inf = 0 ELSE d.n = Inf

\* C20: distance(s1, s2) is Inf exactly when s1 or s2 is infinite, and for
\* two points that are not infinite it is the Euclidean distance of their
\* positions, below Inf.
C20_DistanceInfIffInfinite ==
    surf.op = "distance" =>
        /\ DistIsInf(surf.dist) <=> (surf.s1.infinite \/ surf.s2.infinite)
        /\ (~surf.s1.infinite /\ ~surf.s2.infinite)
              => /\ surf.dist.root
                 /\ surf.dist.n
                      = (surf.s1.p[1] - surf.s2.p[1]) * (surf.s1.p[1] - surf.s2.p[1])
                      + (surf.s1.p[2] - surf.s2.p[2]) * (surf.s1.p[2] - surf.s2.p[2])
                      + (surf.s1.p[3] - surf.s2.p[3]) * (surf.s1.p[3] - surf.s2.p[3])
                 /\ surf.dist.n \div Inf < Inf

\* A point with a position and a point at infinity: the distance is Inf.
C20_Witness ==
    /\ surf.op = "distance"
    /\ ~surf.s1.infinite /\ surf.s2.infinite
    /\ surf.dist = [n |-> Inf, root |-> FALSE]

\* C21: every SceneInteraction a factory returns has the flags of its
\* variant: a surface interaction has endpoint and medium false and no
\* terminator, a medium interaction has medium true, endpoint false and no
\* terminator, a camera or light endpoint has endpoint true, medium false,
\* no terminator and its geometry set, a camera terminator has both flags
\* false, the terminator Camera and neither primitive nor geometry set;
\* endpoint and medium are never both true, and a terminator never comes
\* with a primitive or a geometry.
C21_InteractionVariants ==
    surf.sp # << >> =>
        LET sp == surf.sp
        IN /\ surf.op = "makeSurfaceInteraction"
                 => ~sp.endpoint /\ ~sp.medium /\ sp.terminator = "none"
           /\ surf.op = "makeMediumInteraction"
                 => ~sp.endpoint /\ sp.medium /\ sp.terminator = "none"
           /\ surf.op \in {"makeCameraEndpoint", "makeLightEndpoint"}
                 => /\ sp.endpoint /\ ~sp.medium /\ sp.terminator = "none"
                    /\ "geom" \in sp.set
           /\ surf.op = "makeCameraTerminator"
                 => /\ ~sp.endpoint /\ ~sp.medium /\ sp.terminator = "Camera"
                    /\ "primitive" \notin sp.set /\ "geom" \notin sp.set
           /\ ~(sp.endpoint /\ sp.medium)
           /\ sp.terminator # "none"
                 => "primitive" \notin sp.set /\ "geom" \notin sp.set

\* A camera terminator has been made: the sentinel, with nothing assigned
\* to primitive or geom.
C21_Witness ==
    /\ surf.op = "makeCameraTerminator"
    /\ surf.sp.terminator = "Camera"
    /\ surf.sp.set = {"endpoint", "medium", "terminator", "cameraCond"}

\* C22: intersect(ray, tmin, tmax) returns empty exactly when no face of
\* the built scene is crossed at a t with tmin < t <= tmax, and otherwise a
\* hit of the smallest such t; on a scene of zero primitives it returns
\* empty, and an empty result is a normal return, never an error.
C22_ClosestHitInRange ==
    accel.op = "intersect" =>
        LET inRange == { h \in Crossings(accel.scene, accel.ray) :
                            accel.tmin < h.t /\ h.t <= accel.tmax }
        IN /\ accel.signal = "ok"
           /\ accel.hit = << >> <=> inRange = {}
           /\ accel.hit # << >>
                 => /\ accel.hit[1] \in inRange
                    /\ \A g \in inRange : accel.hit[1].t <= g.t
           /\ accel.scene = << >> => accel.hit = << >>

\* A query with a face crossed at t = tmin, which the range leaves out, and
\* two faces crossed inside the range at different distances.
C22_Witness ==
    /\ accel.op = "intersect"
    /\ accel.hit # << >>
    /\ \E h \in Crossings(accel.scene, accel.ray) : h.t = accel.tmin
    /\ \E g \in Crossings(accel.scene, accel.ray) :
          accel.hit[1].t < g.t /\ g.t <= accel.tmax

\* C23: while the user context is not initialised, none of info, reset,
\* assets, serialize, deserialize and shutdown completes normally: each
\* call made in that state ends in an error.
C23_UninitialisedCallsFail ==
    [][(/\ u_last.op = "none"
        /\ ~user.initialized_
        /\ u_last'.op \in {"info", "reset", "assets", "serialize",
                           "deserialize", "shutdown"})
          => u_last'.signal # "ok"]_vars

\* C24: once the instance is destroyed, no payload buffer it allocated in
\* construct is still allocated.
C24_PayloadFreedAtDestruction == heap.destroyed => heap.live = 0

\* C25: called while the user context is not initialised, each of
\* shutdown, info, serialize and deserialize throws Uninitialized and has
\* done nothing else: no subsystem call was made, nothing was written or
\* loaded, and the context (initialized_ included) is as it was.
C25_UninitialisedThrowsFirst ==
    [][(/\ u_last.op = "none"
        /\ ~user.initialized_
        /\ u_last'.op \in {"shutdown", "info", "serialize", "deserialize"})
          => /\ u_last'.signal = "Uninitialized"
             /\ u_last'.log = << >>
             /\ u_last'.out = << >>
             /\ ~u_last'.info
             /\ user' = user]_vars

\* A second shutdown after init and shutdown: it throws, and the assets
\* the first run left are still there.
C25_Witness ==
    /\ u_last.op = "shutdown"
    /\ u_last.signal = "Uninitialized"
    /\ ~user.initialized_
    /\ user.assets_ # << >>

\* C26: whatever the nesting or sequence of ScopedInit scopes, the
\* shutdown call of each destructor finds the framework initialised and
\* completes without error.
C26_ScopeExitShutsDown ==
    u_last.op = "~ScopedInit" => u_last.signal = "ok"

\* C27: geometryTerm, distance, opposite and orthonormalBasis read the
\* position p only of points that are not infinite and the normal n only of
\* on-surface points.
C27_ReadsOnlyValidFields ==
    \A r \in surf.reads :
        LET s == IF r[1] = 1 THEN surf.s1 ELSE surf.s2
        IN /\ r[2] = "p" => ~s.infinite
           /\ r[2] = "n" => ~s.infinite /\ ~s.degenerated

\* C28: with a compositor among the albedo fields of a compositor, at
\* every round i of the weighting loop of the outer call the entry i of the
\* scratch holds the density of the outer call's field i at p, and the
\* scratch is empty when the outermost call has returned.
C28_NestedCallKeepsWeights ==
    /\ (nest.pc = "running" /\ Len(nest.stack) = 1
           /\ nest.stack[1].i <= nest.outer.size_)
          => LET i == nest.stack[1].i
             IN /\ i <= Len(nest.scratch)
                /\ nest.scratch[i]
                      = vol_eval_scalar(nest.outer.volumes_den_[i], nest.p)
    /\ nest.pc = "done" => nest.scratch = << >>

\* C29: after a construct call, whether it succeeded or failed, size_ is
\* the length of the density list and of the albedo list.
C29_SizeMatchesLists ==
    m_last.op = "construct" =>
        /\ multi.size_ = Len(multi.volumes_den_)
        /\ multi.size_ = Len(multi.volumes_alb_)

\* C30: a shutdown that completes shuts the initialised subsystems down in
\* the reverse of the order in which they were initialised.
C30_ShutdownReversesInit ==
    [][(/\ u_last.op = "none"
        /\ u_last'.op = "shutdown"
        /\ u_last'.signal = "ok")
          => LET Running(x) == \E k \in DOMAIN user.subs : user.subs[k] = x
                 n == Len(user.subs)
             IN SelectSeq(u_last'.log, Running)
                   = [k \in 1..n |-> user.subs[n + 1 - k]]]_vars
====
